---------------------------- MODULE Spec2Model ----------------------------
(***************************************************************************)
(* A model of integration_test/src/lib.rs: the NodeExt trait, which gives  *)
(* a test a running bitcoind (Node) and drives it through fixed RPC        *)
(* sequences.                                                              *)
(*                                                                         *)
(* One test thread owns one handle.  It calls one of the six constructors  *)
(* (all of them _new), then scenario operations one after another.  Every  *)
(* `expect` of the source is a step that either yields its value or        *)
(* panics; a panic unwinds the test, so nothing of the test runs after it. *)
(*                                                                         *)
(* The daemon behind the handle (the node crate and bitcoind itself) is    *)
(* the environment: each RPC is one atomic step on the daemon's state (the *)
(* chain, the mempool, the wallet's key pool), whose reply may be an       *)
(* error.                                                                  *)
(***************************************************************************)
EXTENDS Integers, Sequences, FiniteSets, TLC

(***************************************************************************)
(* Bounds of the model.                                                    *)
(***************************************************************************)
\* Scenario operations one test calls on its handle.
MaxCalls == 4

(***************************************************************************)
(* Program constants.                                                      *)
(***************************************************************************)
\* Confirmations a coinbase output needs before it may be spent (a
\* consensus rule of the daemon).
CoinbaseMaturity == 100

\* NBLOCKS set to the maturity itself, one block short.
NBLOCKS_AtMaturity == CoinbaseMaturity

\* const NBLOCKS: usize = 101
NBLOCKS == 101

(***************************************************************************)
(* Option<T>: None is the empty sequence, Some(x) the sequence <<x>>.      *)
(***************************************************************************)
None == <<>>

Some(x) == <<x>>

IsSome(o) == Len(o) = 1

Unwrap(o) == o[1]

(***************************************************************************)
(* bitcoin::Amount.  An amount is a number of satoshis; 50 BTC is more     *)
(* satoshis than a 32 bit integer holds, so an amount is kept as whole     *)
(* coins and the satoshis below one coin.                                  *)
(***************************************************************************)
SatPerBtc == 100000000

from_sat(n) == [btc |-> n \div SatPerBtc, sat |-> n % SatPerBtc]

AmountZero == from_sat(0)

AmountAdd(a, b) ==
    [btc |-> a.btc + b.btc + ((a.sat + b.sat) \div SatPerBtc),
     sat |-> (a.sat + b.sat) % SatPerBtc]

AmountPositive(a) == a.btc > 0 \/ a.sat > 0

\* const MILLION_SATS: bitcoin::Amount = bitcoin::Amount::from_sat(1000000)
MILLION_SATS == from_sat(1000000)

(***************************************************************************)
(* pub enum Wallet { Default, Load(String), None }                         *)
(***************************************************************************)
WalletNames == {"default", "alice", ""}

WalletDefault == [tag |-> "Default", name |-> ""]

WalletLoad(w) == [tag |-> "Load", name |-> w]

WalletNone == [tag |-> "None", name |-> ""]

(***************************************************************************)
(* The six convenience constructors: the arguments each hands to _new.     *)
(***************************************************************************)
NewArgs(wallet, txindex) == [wallet |-> wallet, txindex |-> txindex]

new_with_default_wallet == NewArgs(WalletDefault, FALSE)

new_with_default_wallet_txindex == NewArgs(WalletDefault, TRUE)

new_with_wallet(wallet) == NewArgs(WalletLoad(wallet), FALSE)

new_with_wallet_txindex(wallet) == NewArgs(WalletLoad(wallet), TRUE)

new_no_wallet == NewArgs(WalletNone, FALSE)

\* new_no_wallet_txindex passing `false`, as new_no_wallet does.
new_no_wallet_txindex_NoFlag == NewArgs(WalletNone, FALSE)

new_no_wallet_txindex == NewArgs(WalletNone, TRUE)

Constructors ==
    {"new_with_default_wallet", "new_with_default_wallet_txindex",
     "new_with_wallet", "new_with_wallet_txindex",
     "new_no_wallet", "new_no_wallet_txindex"}

TxindexConstructors ==
    {"new_with_default_wallet_txindex", "new_with_wallet_txindex",
     "new_no_wallet_txindex"}

\* The call of _new that constructor `ctor`, given the name `w`, makes.
ConstructorArgs(ctor, w) ==
    CASE ctor = "new_with_default_wallet" -> new_with_default_wallet
      [] ctor = "new_with_default_wallet_txindex" -> new_with_default_wallet_txindex
      [] ctor = "new_with_wallet" -> new_with_wallet(w)
      [] ctor = "new_with_wallet_txindex" -> new_with_wallet_txindex(w)
      [] ctor = "new_no_wallet" -> new_no_wallet
      [] ctor = "new_no_wallet_txindex" -> new_no_wallet_txindex

(***************************************************************************)
(* node::Conf.  Conf::default() loads the wallet "default" (the comment of *)
(* _new's Wallet::Default arm) and passes the node crate's own arguments.  *)
(***************************************************************************)
DefaultConf ==
    [wallet |-> Some("default"), args |-> <<"-regtest", "-fallbackfee=0.0001">>]

\* ConfWallet taking an empty name for no name given: Load("") keeps the
\* default wallet.
ConfWallet_EmptyNameIsDefault(conf, wallet) ==
    CASE wallet.tag = "Default" -> conf
      [] wallet.tag = "Load" ->
            IF wallet.name = "" THEN conf ELSE [conf EXCEPT !.wallet = Some(wallet.name)]
      [] wallet.tag = "None" -> [conf EXCEPT !.wallet = None]

\* ConfWallet with the Wallet::Load arm left empty, as the Default arm is.
ConfWallet_LoadKeepsDefault(conf, wallet) ==
    CASE wallet.tag = "Default" -> conf
      [] wallet.tag = "Load" -> conf
      [] wallet.tag = "None" -> [conf EXCEPT !.wallet = None]

\* ConfWallet with the Wallet::None arm left empty, as the Default arm is.
ConfWallet_NoneKeepsDefault(conf, wallet) ==
    CASE wallet.tag = "Default" -> conf
      [] wallet.tag = "Load" -> [conf EXCEPT !.wallet = Some(wallet.name)]
      [] wallet.tag = "None" -> conf

\* match wallet { Default => {}, Load(w) => conf.wallet = Some(w), None => conf.wallet = None }
ConfWallet(conf, wallet) ==
    CASE wallet.tag = "Default" -> conf
      [] wallet.tag = "Load" -> [conf EXCEPT !.wallet = Some(wallet.name)]
      [] wallet.tag = "None" -> [conf EXCEPT !.wallet = None]

\* if txindex { conf.args.push("-txindex") }
ConfTxindex(conf, txindex) ==
    IF txindex THEN [conf EXCEPT !.args = Append(@, "-txindex")] ELSE conf

\* The configuration _new builds between exe_path and with_conf.
BuildConf(wallet, txindex) == ConfTxindex(ConfWallet(DefaultConf, wallet), txindex)

HasArg(conf, arg) == \E i \in 1..Len(conf.args) : conf.args[i] = arg

(***************************************************************************)
(* The daemon's chain.  A transaction is its id, whether it is a coinbase, *)
(* its outputs to wallet receive addresses (`output`, as in                *)
(* bitcoin::Transaction) and the unconfirmed transaction it spends from,   *)
(* if any.  A send's change output pays an internal change address that    *)
(* new_address never returns; it is not listed.  Block `txdata` is ordered *)
(* and starts with the coinbase: the source's txdata[i] is txdata[i + 1]   *)
(* here.  chain[h] is the block at height h; the genesis block is apart.   *)
(***************************************************************************)
NoTxid == <<"none", 0>>

NoAddress == 0

\* The regtest block subsidy: 50 BTC, halved every 150 blocks.
Subsidy(height) ==
    LET halvings == height \div 150
    IN  [btc |-> 50 \div (2 ^ halvings),
         sat |-> ((50 % (2 ^ halvings)) * SatPerBtc) \div (2 ^ halvings)]

TxOut(address, value) == [address |-> address, value |-> value]

CoinbaseTx(height, address) ==
    [txid |-> <<"coinbase", height>>, coinbase |-> TRUE,
     output |-> <<TxOut(address, Subsidy(height))>>, parent |-> NoTxid]

SendTx(n, address, amount, parent) ==
    [txid |-> <<"tx", n>>, coinbase |-> FALSE,
     output |-> <<TxOut(address, amount)>>, parent |-> parent]

Block(height, address, txs) ==
    [height |-> height, txdata |-> <<CoinbaseTx(height, address)>> \o txs]

GenesisBlock == Block(0, NoAddress, <<>>)

\* getblockcount
Height(ch) == Len(ch)

\* getbestblockhash: a block's hash is modelled by its height (one chain, no forks).
BestBlockHash(ch) == Height(ch)

\* getblock
GetBlock(ch, hash) == IF hash = 0 THEN GenesisBlock ELSE ch[hash]

Pays(tx, address, amount) ==
    \E i \in 1..Len(tx.output) :
        tx.output[i].address = address /\ tx.output[i].value = amount

InBlock(blk, txid) == \E i \in 1..Len(blk.txdata) : blk.txdata[i].txid = txid

InChain(ch, txid) == \E h \in 1..Len(ch) : InBlock(ch[h], txid)

InMempool(mp, txid) == \E i \in 1..Len(mp) : mp[i].txid = txid

(***************************************************************************)
(* The wallet's coins.  Every block of the chain is mined by this test to  *)
(* an address of the loaded wallet, so the wallet's coins are the coinbase *)
(* outputs; sends pay the wallet's own addresses, so they move coins and   *)
(* take none away (the fee, some thousand satoshis against a subsidy of    *)
(* coins, comes back with the block's coinbase and is not modelled).       *)
(***************************************************************************)
\* The heights whose coinbase is mature at tip `height`.
MatureCount(height) ==
    IF height > CoinbaseMaturity THEN height - CoinbaseMaturity ELSE 0

RECURSIVE SumSubsidy(_, _)
\* The subsidies of the heights lo..hi, added up by halves.
SumSubsidy(lo, hi) ==
    IF lo > hi THEN AmountZero
    ELSE IF lo = hi THEN Subsidy(lo)
    ELSE LET mid == (lo + hi) \div 2
         IN  AmountAdd(SumSubsidy(lo, mid), SumSubsidy(mid + 1, hi))

\* getbalance: the total of the mature coinbase outputs.
SpendableBalance(ch) == SumSubsidy(1, MatureCount(Height(ch)))

\* Pending sends that spent a confirmed coin.
RootSends(mp) == {i \in 1..Len(mp) : mp[i].parent = NoTxid}

\* Confirmed coins no pending send has spent.
ConfirmedCoins(ch, mp) == MatureCount(Height(ch)) - Cardinality(RootSends(mp))

\* Pending sends whose change no other pending send has spent.
UnspentChange(mp) ==
    {mp[i].txid : i \in {j \in 1..Len(mp) : \A k \in 1..Len(mp) : mp[k].parent # mp[j].txid}}

\* What a new send may spend from: the wallet selects among confirmed coins
\* first and spends unconfirmed change only when it has none; with neither
\* the send is refused (insufficient funds).
SendParents(ch, mp) ==
    IF ConfirmedCoins(ch, mp) > 0 THEN {NoTxid} ELSE UnspentChange(mp)

(***************************************************************************)
(* Block assembly: a block takes the whole mempool, each transaction after *)
(* the one it spends from; the order is otherwise the daemon's choice.     *)
(***************************************************************************)
RespectsParents(mp, f) ==
    \A i, j \in 1..Len(mp) : mp[f[j]].parent = mp[f[i]].txid => i < j

BlockOrders(mp) ==
    {[i \in 1..Len(mp) |-> mp[f[i]]] :
        f \in {g \in Permutations(1..Len(mp)) : RespectsParents(mp, g)}}

\* `n` blocks without transactions on top of height `h`, all paying `address`.
EmptyBlocks(h, n, address) == [i \in 1..n |-> Block(h + i, address, <<>>)]

\* Generate whose blocks hold a coinbase and nothing else.
Generate_LeavesTransactionsOut(ch, nblocks, address, txs) ==
    ch \o EmptyBlocks(Height(ch), nblocks, address)

\* generatetoaddress nblocks address: the first block confirms the mempool
\* in the order `txs`.
Generate(ch, nblocks, address, txs) ==
    IF nblocks = 0 THEN ch
    ELSE ch \o <<Block(Height(ch) + 1, address, txs)>>
            \o EmptyBlocks(Height(ch) + 1, nblocks - 1, address)

(***************************************************************************)
(* State.                                                                  *)
(***************************************************************************)
VARIABLES
    pc,          \* the test thread's position
    ctor,        \* the constructor the test called
    args,        \* the arguments of _new
    exe,         \* _new's `exe`
    conf,        \* _new's `conf`
    spawned,     \* the calls of Node::with_conf made: <<[exe, conf]>>
    handle,      \* whether the test holds a Node
    op,          \* the scenario operation called last
    history,     \* the scenario operations called so far, in order
    atCall,      \* the daemon's state when the current operation was called
    faulted,     \* whether the environment has failed a step of this test
    log,         \* the steps of the current operation: <<[step, rpc, ok]>>
    local,       \* the locals of fund_wallet, mine_a_block, create_mempool_transaction
    mined,       \* the locals of create_mined_transaction
    ret,         \* what the last operation returned
    panicMsg,    \* the message of the panic that ended the test
    daemon,      \* the bitcoind process: "none", "running", "stopped"
    workdir,     \* the daemon's working directory: "none", "present", "removed"
    wallet,      \* the wallet the daemon has loaded (an Option)
    chain,       \* the daemon's blocks, by height
    mempool,     \* the daemon's unconfirmed transactions, in arrival order
    nextAddress, \* the wallet's key pool: the next receive address
    nextTx       \* the number of the next transaction the wallet creates

testVars ==
    <<pc, ctor, args, exe, conf, spawned, handle, op, history, atCall, faulted,
      log, local, mined, ret, panicMsg>>

daemonVars == <<daemon, workdir, wallet, chain, mempool, nextAddress, nextTx>>

vars == <<testVars, daemonVars>>

NoTx == [txid |-> NoTxid, coinbase |-> FALSE, output |-> <<>>, parent |-> NoTxid]

NoReply == [txid |-> NoTxid, valid |-> FALSE]

NoLocal == [address |-> NoAddress, reply |-> NoReply, txid |-> NoTxid]

NoMined == [address |-> NoAddress, best_block_hash |-> 0, best_block |-> GenesisBlock]

NoRet == [kind |-> "none", address |-> NoAddress, txid |-> NoTxid, tx |-> NoTx]

UnitRet == [NoRet EXCEPT !.kind = "unit"]

\* What a call remembers of the daemon for the properties below.
Snapshot(ch, mp, addr) == [height |-> Height(ch), mempool |-> mp, nextAddress |-> addr]

NoSnapshot == Snapshot(<<>>, <<>>, 1)

ScenarioOps ==
    {"fund_wallet", "mine_a_block", "create_mempool_transaction", "create_mined_transaction"}

\* FirstStep with create_mined_transaction's two calls swapped: it mines
\* before it sends.
FirstStep_MineFirst(o) ==
    CASE o = "fund_wallet" -> "fund_new_address"
      [] o = "mine_a_block" -> "mine_new_address"
      [] o = "create_mempool_transaction" -> "mempool_new_address"
      [] o = "create_mined_transaction" -> "mine_new_address"

\* The first step of each scenario operation.
FirstStep(o) ==
    CASE o = "fund_wallet" -> "fund_new_address"
      [] o = "mine_a_block" -> "mine_new_address"
      [] o = "create_mempool_transaction" -> "mempool_new_address"
      [] o = "create_mined_transaction" -> "mempool_new_address"

\* How an RPC ends: replied to, refused or unreachable (nothing done), or
\* done by the daemon with the reply lost on the way back.
Outcomes == {"ok", "error", "lost"}

ReadOutcomes == {"ok", "error"}

Step(step, rpc, ok) == [step |-> step, rpc |-> rpc, ok |-> ok]

Init ==
    /\ pc = "start"
    /\ ctor = "none"
    /\ args = NewArgs(WalletNone, FALSE)
    /\ exe = None
    /\ conf = None
    /\ spawned = <<>>
    /\ handle = FALSE
    /\ op = "none"
    /\ history = <<>>
    /\ atCall = NoSnapshot
    /\ faulted = FALSE
    /\ log = <<>>
    /\ local = NoLocal
    /\ mined = NoMined
    /\ ret = NoRet
    /\ panicMsg = ""
    /\ daemon = "none"
    /\ workdir = "none"
    /\ wallet = None
    /\ chain = <<>>
    /\ mempool = <<>>
    /\ nextAddress = 1
    /\ nextTx = 1

(***************************************************************************)
(* The constructors.                                                       *)
(***************************************************************************)
\* The test calls one of the six constructors, which calls _new.
CallConstructor ==
    /\ pc = "start"
    /\ \E c \in Constructors, w \in WalletNames :
        /\ ctor' = c
        /\ args' = ConstructorArgs(c, w)
    /\ pc' = "new_exe_path"
    /\ UNCHANGED <<exe, conf, spawned, handle, op, history, atCall, faulted>>
    /\ UNCHANGED <<log, local, mined, ret, panicMsg>>
    /\ UNCHANGED daemonVars

\* NewExePath falling back to the bare program name when the lookup fails
\* (unwrap_or in place of expect).
NewExePath_FallbackPath ==
    /\ pc = "new_exe_path"
    /\ \E found \in BOOLEAN :
        /\ log' = Append(log, Step("new_exe_path", "exe_path", found))
        /\ faulted' = (faulted \/ ~found)
    /\ exe' = Some("bitcoind")
    /\ pc' = "new_conf"
    /\ UNCHANGED <<ctor, args, conf, spawned, handle, op, history, atCall, local, mined, ret>>
    /\ UNCHANGED panicMsg
    /\ UNCHANGED daemonVars

\* let exe = node::exe_path().expect("failed to get bitcoind executable");
NewExePath ==
    /\ pc = "new_exe_path"
    /\ \E found \in BOOLEAN :
        /\ log' = Append(log, Step("new_exe_path", "exe_path", found))
        /\ faulted' = (faulted \/ ~found)
        /\ IF found
           THEN /\ exe' = Some("bitcoind")
                /\ pc' = "new_conf"
                /\ UNCHANGED panicMsg
           ELSE /\ pc' = "panicked"
                /\ panicMsg' = "failed to get bitcoind executable"
                /\ UNCHANGED exe
    /\ UNCHANGED <<ctor, args, conf, spawned, handle, op, history, atCall, local, mined, ret>>
    /\ UNCHANGED daemonVars

\* let mut conf = node::Conf::default(); match wallet {..}; if txindex {..}
NewConf ==
    /\ pc = "new_conf"
    /\ conf' = Some(BuildConf(args.wallet, args.txindex))
    /\ pc' = "new_with_conf"
    /\ UNCHANGED <<ctor, args, exe, spawned, handle, op, history, atCall, faulted>>
    /\ UNCHANGED <<log, local, mined, ret, panicMsg>>
    /\ UNCHANGED daemonVars

\* The wallet a daemon started with `c` has loaded: with_conf creates or
\* loads the wallet the configuration names.
LoadedWallet(c) == c.wallet

\* NewWithConf leaking the Node it got (kept alive for the whole process):
\* the test works on a reference and holds no Node to drop.
NewWithConf_Leaked ==
    /\ pc = "new_with_conf"
    /\ spawned' = Append(spawned, [exe |-> Unwrap(exe), conf |-> Unwrap(conf)])
    /\ \E started \in BOOLEAN :
        /\ log' = Append(log, Step("new_with_conf", "with_conf", started))
        /\ faulted' = (faulted \/ ~started)
        /\ IF started
           THEN /\ daemon' = "running"
                /\ workdir' = "present"
                /\ wallet' = LoadedWallet(Unwrap(conf))
                /\ pc' = "idle"
                /\ UNCHANGED panicMsg
           ELSE /\ pc' = "panicked"
                /\ panicMsg' = "failed to create node"
                /\ UNCHANGED <<daemon, workdir, wallet>>
    /\ UNCHANGED <<ctor, args, exe, conf, handle, op, history, atCall, local, mined, ret>>
    /\ UNCHANGED <<chain, mempool, nextAddress, nextTx>>

\* Node::with_conf(exe, &conf).expect("failed to create node")
NewWithConf ==
    /\ pc = "new_with_conf"
    /\ spawned' = Append(spawned, [exe |-> Unwrap(exe), conf |-> Unwrap(conf)])
    /\ \E started \in BOOLEAN :
        /\ log' = Append(log, Step("new_with_conf", "with_conf", started))
        /\ faulted' = (faulted \/ ~started)
        /\ IF started
           THEN /\ daemon' = "running"
                /\ workdir' = "present"
                /\ wallet' = LoadedWallet(Unwrap(conf))
                /\ handle' = TRUE
                /\ pc' = "idle"
                /\ UNCHANGED panicMsg
           ELSE /\ pc' = "panicked"
                /\ panicMsg' = "failed to create node"
                /\ UNCHANGED <<daemon, workdir, wallet, handle>>
    /\ UNCHANGED <<ctor, args, exe, conf, op, history, atCall, local, mined, ret>>
    /\ UNCHANGED <<chain, mempool, nextAddress, nextTx>>

(***************************************************************************)
(* The scenario operations.  Each `expect` is one step.                    *)
(***************************************************************************)
\* The test calls a scenario operation on its handle.
Call ==
    /\ pc = "idle"
    /\ Len(history) < MaxCalls
    /\ \E o \in ScenarioOps :
        /\ op' = o
        /\ pc' = FirstStep(o)
        /\ history' = Append(history, o)
    /\ atCall' = Snapshot(chain, mempool, nextAddress)
    /\ log' = <<>>
    /\ local' = NoLocal
    /\ mined' = NoMined
    /\ ret' = NoRet
    /\ UNCHANGED <<ctor, args, exe, conf, spawned, handle, faulted, panicMsg>>
    /\ UNCHANGED daemonVars

\* The test is aborted by a failed `expect`.
Panic(msg) ==
    /\ pc' = "panicked"
    /\ panicMsg' = msg

\* self.client.new_address().expect("failed to get new address") at step
\* `step`, the address going to `local.address` and control to `next`.
\* getnewaddress needs a loaded wallet and takes a key from its pool.
NewAddress(step, next) ==
    /\ pc = step
    /\ \E outcome \in Outcomes :
        LET served == outcome # "error" /\ IsSome(wallet)
            replied == served /\ outcome = "ok"
        IN  /\ nextAddress' = IF served THEN nextAddress + 1 ELSE nextAddress
            /\ log' = Append(log, Step(step, "new_address", replied))
            /\ faulted' = (faulted \/ outcome # "ok")
            /\ IF replied
               THEN /\ local' = [local EXCEPT !.address = nextAddress]
                    /\ pc' = next
                    /\ UNCHANGED panicMsg
               ELSE /\ Panic("failed to get new address")
                    /\ UNCHANGED local
    /\ UNCHANGED <<ctor, args, exe, conf, spawned, handle, op, history, atCall, mined, ret>>
    /\ UNCHANGED <<daemon, workdir, wallet, chain, mempool, nextTx>>

\* self.client.generate_to_address(nblocks, &address).expect("failed to
\* generate to address") at step `step`; `done` is what follows it.
GenerateToAddress(step, nblocks, done) ==
    /\ pc = step
    /\ \E outcome \in Outcomes :
        LET served == outcome # "error"
            replied == served /\ outcome = "ok"
        IN  /\ IF served
               THEN /\ \E txs \in BlockOrders(mempool) :
                        chain' = Generate(chain, nblocks, local.address, txs)
                    /\ mempool' = <<>>
               ELSE UNCHANGED <<chain, mempool>>
            /\ log' = Append(log, Step(step, "generate_to_address", replied))
            /\ faulted' = (faulted \/ outcome # "ok")
            /\ IF replied
               THEN done /\ UNCHANGED panicMsg
               ELSE Panic("failed to generate to address") /\ UNCHANGED <<mined, ret>>
    /\ UNCHANGED <<ctor, args, exe, conf, spawned, handle, op, history, atCall, local>>
    /\ UNCHANGED <<daemon, workdir, wallet, nextAddress, nextTx>>

\* FundNewAddress asking the wallet for two addresses and keeping the second.
FundNewAddress_Twice ==
    /\ pc = "fund_new_address"
    /\ \E outcome \in Outcomes :
        LET served == outcome # "error" /\ IsSome(wallet)
            replied == served /\ outcome = "ok"
        IN  /\ nextAddress' = IF served THEN nextAddress + 2 ELSE nextAddress
            /\ log' = Append(log, Step("fund_new_address", "new_address", replied))
            /\ faulted' = (faulted \/ outcome # "ok")
            /\ IF replied
               THEN /\ local' = [local EXCEPT !.address = nextAddress + 1]
                    /\ pc' = "fund_generate"
                    /\ UNCHANGED panicMsg
               ELSE /\ Panic("failed to get new address")
                    /\ UNCHANGED local
    /\ UNCHANGED <<ctor, args, exe, conf, spawned, handle, op, history, atCall, mined, ret>>
    /\ UNCHANGED <<daemon, workdir, wallet, chain, mempool, nextTx>>

\* fund_wallet: let address = self.client.new_address().expect(..)
FundNewAddress == NewAddress("fund_new_address", "fund_generate")

\* fund_wallet returns.
FundReturn ==
    /\ pc' = "idle"
    /\ ret' = UnitRet
    /\ UNCHANGED mined

\* FundGenerate dropping the Result (`let _ =` in place of expect):
\* fund_wallet returns whether or not the blocks were generated.
FundGenerate_IgnoresError ==
    /\ pc = "fund_generate"
    /\ \E outcome \in Outcomes :
        /\ IF outcome # "error"
           THEN /\ \E txs \in BlockOrders(mempool) :
                    chain' = Generate(chain, NBLOCKS, local.address, txs)
                /\ mempool' = <<>>
           ELSE UNCHANGED <<chain, mempool>>
        /\ log' = Append(log, Step("fund_generate", "generate_to_address", outcome = "ok"))
        /\ faulted' = (faulted \/ outcome # "ok")
    /\ FundReturn
    /\ UNCHANGED panicMsg
    /\ UNCHANGED <<ctor, args, exe, conf, spawned, handle, op, history, atCall, local>>
    /\ UNCHANGED <<daemon, workdir, wallet, nextAddress, nextTx>>

\* fund_wallet: self.client.generate_to_address(NBLOCKS, &address).expect(..)
FundGenerate == GenerateToAddress("fund_generate", NBLOCKS, FundReturn)

\* mine_a_block: let address = self.client.new_address().expect(..)
MineNewAddress == NewAddress("mine_new_address", "mine_generate")

\* mine_a_block returns: to the test, or into create_mined_transaction.
MineReturn ==
    IF op = "mine_a_block"
    THEN /\ pc' = "idle"
         /\ ret' = UnitRet
         /\ UNCHANGED mined
    ELSE /\ pc' = "mined_best_block_hash"
         /\ UNCHANGED <<mined, ret>>

\* mine_a_block generating two blocks.
MineGenerate_Two == GenerateToAddress("mine_generate", 2, MineReturn)

\* mine_a_block: self.client.generate_to_address(1, &address).expect(..)
MineGenerate == GenerateToAddress("mine_generate", 1, MineReturn)

\* create_mempool_transaction: let address = self.client.new_address().expect(..)
MempoolNewAddress == NewAddress("mempool_new_address", "mempool_send")

\* create_mempool_transaction:
\* self.client.send_to_address(&address, MILLION_SATS).expect("failed to send to address")
\* sendtoaddress needs a loaded wallet with a coin to spend; the reply
\* carries the transaction id as text.
MempoolSend ==
    /\ pc = "mempool_send"
    /\ \E outcome \in Outcomes :
        LET served == outcome # "error" /\ IsSome(wallet) /\ SendParents(chain, mempool) # {}
            replied == served /\ outcome = "ok"
        IN  /\ IF served
               THEN /\ \E parent \in SendParents(chain, mempool) :
                        mempool' = Append(mempool,
                                     SendTx(nextTx, local.address, MILLION_SATS, parent))
                    /\ nextTx' = nextTx + 1
               ELSE UNCHANGED <<mempool, nextTx>>
            /\ log' = Append(log, Step("mempool_send", "send_to_address", replied))
            /\ IF replied
               THEN /\ \E valid \in BOOLEAN :
                        /\ local' = [local EXCEPT !.reply = [txid |-> <<"tx", nextTx>>,
                                                             valid |-> valid]]
                        /\ faulted' = (faulted \/ ~valid)
                    /\ pc' = "mempool_txid"
                    /\ UNCHANGED panicMsg
               ELSE /\ Panic("failed to send to address")
                    /\ faulted' = (faulted \/ outcome # "ok")
                    /\ UNCHANGED local
    /\ UNCHANGED <<ctor, args, exe, conf, spawned, handle, op, history, atCall, mined, ret>>
    /\ UNCHANGED <<daemon, workdir, wallet, chain, nextAddress>>

\* MempoolReturn that always goes on to mine a block, whoever called.
MempoolReturn_AlwaysMines(address, txid) ==
    /\ pc' = "mine_new_address"
    /\ mined' = [mined EXCEPT !.address = address]
    /\ UNCHANGED ret

\* create_mempool_transaction returns (address, txid): to the test, or into
\* create_mined_transaction's `let (address, _) = ..`.
MempoolReturn(address, txid) ==
    IF op = "create_mempool_transaction"
    THEN /\ pc' = "idle"
         /\ ret' = [NoRet EXCEPT !.kind = "address_txid", !.address = address, !.txid = txid]
         /\ UNCHANGED mined
    ELSE /\ pc' = "mine_new_address"
         /\ mined' = [mined EXCEPT !.address = address]
         /\ UNCHANGED ret

\* MempoolTxid returning the default txid when the reply's does not decode
\* (unwrap_or_default in place of expect).
MempoolTxid_UnwrapOrDefault ==
    /\ pc = "mempool_txid"
    /\ log' = Append(log, Step("mempool_txid", "txid", local.reply.valid))
    /\ LET txid == IF local.reply.valid THEN local.reply.txid ELSE NoTxid
       IN  /\ local' = [local EXCEPT !.txid = txid]
           /\ MempoolReturn(local.address, txid)
    /\ UNCHANGED panicMsg
    /\ UNCHANGED <<ctor, args, exe, conf, spawned, handle, op, history, atCall, faulted>>
    /\ UNCHANGED daemonVars

\* create_mempool_transaction: .txid().expect("failed to convert hex to txid");
\* (address, txid)
MempoolTxid ==
    /\ pc = "mempool_txid"
    /\ log' = Append(log, Step("mempool_txid", "txid", local.reply.valid))
    /\ IF local.reply.valid
       THEN /\ local' = [local EXCEPT !.txid = local.reply.txid]
            /\ MempoolReturn(local.address, local.reply.txid)
            /\ UNCHANGED panicMsg
       ELSE /\ Panic("failed to convert hex to txid")
            /\ UNCHANGED <<local, mined, ret>>
    /\ UNCHANGED <<ctor, args, exe, conf, spawned, handle, op, history, atCall, faulted>>
    /\ UNCHANGED daemonVars

\* MinedBestBlockHash going on with the default hash when the call fails
\* (unwrap_or_default in place of expect).
MinedBestBlockHash_UnwrapOrDefault ==
    /\ pc = "mined_best_block_hash"
    /\ \E outcome \in ReadOutcomes :
        /\ log' = Append(log, Step("mined_best_block_hash", "best_block_hash", outcome = "ok"))
        /\ faulted' = (faulted \/ outcome # "ok")
        /\ mined' = [mined EXCEPT !.best_block_hash =
                                    IF outcome = "ok" THEN BestBlockHash(chain) ELSE 0]
    /\ pc' = "mined_get_block"
    /\ UNCHANGED panicMsg
    /\ UNCHANGED <<ctor, args, exe, conf, spawned, handle, op, history, atCall, local, ret>>
    /\ UNCHANGED daemonVars

\* create_mined_transaction:
\* let best_block_hash = self.client.best_block_hash().expect("best_block_hash")
MinedBestBlockHash ==
    /\ pc = "mined_best_block_hash"
    /\ \E outcome \in ReadOutcomes :
        /\ log' = Append(log, Step("mined_best_block_hash", "best_block_hash", outcome = "ok"))
        /\ faulted' = (faulted \/ outcome # "ok")
        /\ IF outcome = "ok"
           THEN /\ mined' = [mined EXCEPT !.best_block_hash = BestBlockHash(chain)]
                /\ pc' = "mined_get_block"
                /\ UNCHANGED panicMsg
           ELSE /\ Panic("best_block_hash")
                /\ UNCHANGED mined
    /\ UNCHANGED <<ctor, args, exe, conf, spawned, handle, op, history, atCall, local, ret>>
    /\ UNCHANGED daemonVars

\* create_mined_transaction:
\* let best_block = self.client.get_block(best_block_hash).expect("best_block")
MinedGetBlock ==
    /\ pc = "mined_get_block"
    /\ \E outcome \in ReadOutcomes :
        /\ log' = Append(log, Step("mined_get_block", "get_block", outcome = "ok"))
        /\ faulted' = (faulted \/ outcome # "ok")
        /\ IF outcome = "ok"
           THEN /\ mined' = [mined EXCEPT !.best_block = GetBlock(chain, mined.best_block_hash)]
                /\ pc' = "mined_index"
                /\ UNCHANGED panicMsg
           ELSE /\ Panic("best_block")
                /\ UNCHANGED mined
    /\ UNCHANGED <<ctor, args, exe, conf, spawned, handle, op, history, atCall, local, ret>>
    /\ UNCHANGED daemonVars

\* txdata[0] in place of txdata[1]: the coinbase.
SecondTransaction_Coinbase(blk) == blk.txdata[1]

\* The source's best_block.txdata[1].
SecondTransaction(blk) == blk.txdata[2]

\* MinedIndex returning the address the block was mined to in place of the
\* address the transaction was sent to.
MinedIndex_ReturnsMinerAddress ==
    /\ pc = "mined_index"
    /\ log' = Append(log, Step("mined_index", "index", Len(mined.best_block.txdata) >= 2))
    /\ IF Len(mined.best_block.txdata) >= 2
       THEN /\ ret' = [NoRet EXCEPT !.kind = "address_tx", !.address = local.address,
                                    !.tx = SecondTransaction(mined.best_block)]
            /\ pc' = "idle"
            /\ UNCHANGED panicMsg
       ELSE /\ Panic("index out of bounds")
            /\ UNCHANGED ret
    /\ UNCHANGED <<ctor, args, exe, conf, spawned, handle, op, history, atCall, faulted>>
    /\ UNCHANGED <<local, mined>>
    /\ UNCHANGED daemonVars

\* create_mined_transaction: let tx = best_block.txdata[1].clone(); (address, tx)
\* Indexing past the end of txdata panics.
MinedIndex ==
    /\ pc = "mined_index"
    /\ log' = Append(log, Step("mined_index", "index", Len(mined.best_block.txdata) >= 2))
    /\ IF Len(mined.best_block.txdata) >= 2
       THEN /\ ret' = [NoRet EXCEPT !.kind = "address_tx", !.address = mined.address,
                                    !.tx = SecondTransaction(mined.best_block)]
            /\ pc' = "idle"
            /\ UNCHANGED panicMsg
       ELSE /\ Panic("index out of bounds")
            /\ UNCHANGED ret
    /\ UNCHANGED <<ctor, args, exe, conf, spawned, handle, op, history, atCall, faulted>>
    /\ UNCHANGED <<local, mined>>
    /\ UNCHANGED daemonVars

(***************************************************************************)
(* The end of the test: the Node is dropped when the test returns and when *)
(* a panic unwinds it, and dropping it stops the daemon.                   *)
(***************************************************************************)
DropNode ==
    /\ handle
    /\ pc \in {"idle", "panicked"}
    /\ handle' = FALSE
    /\ daemon' = "stopped"
    /\ workdir' = "removed"
    /\ pc' = IF pc = "idle" THEN "finished" ELSE "aborted"
    /\ UNCHANGED <<ctor, args, exe, conf, spawned, op, history, atCall, faulted>>
    /\ UNCHANGED <<log, local, mined, ret, panicMsg>>
    /\ UNCHANGED <<wallet, chain, mempool, nextAddress, nextTx>>

Next ==
    \/ CallConstructor
    \/ NewExePath
    \/ NewConf
    \/ NewWithConf
    \/ Call
    \/ FundNewAddress
    \/ FundGenerate
    \/ MineNewAddress
    \/ MineGenerate
    \/ MempoolNewAddress
    \/ MempoolSend
    \/ MempoolTxid
    \/ MinedBestBlockHash
    \/ MinedGetBlock
    \/ MinedIndex
    \/ DropNode

Spec == Init /\ [][Next]_vars

\* The test thread runs on: while it has a step to take it takes one, and
\* leaving its scope (by return or by unwinding) is one of its steps.
FairSpec == Spec /\ WF_vars(Next)

(***************************************************************************)
(* Properties.                                                             *)
(***************************************************************************)
\* The block at the tip of the chain.
Tip == GetBlock(chain, BestBlockHash(chain))

\* The operation `o` has just returned to the test.
Returned(o) == pc = "idle" /\ op = o /\ ret.kind # "none"

\* C1: whenever create_mined_transaction returns (address, tx), after any
\* earlier scenario operations, tx has an output paying address exactly
\* MILLION_SATS and tx is the transaction at position 1 of the tip block.
C1_MinedTransactionPaysReturnedAddress ==
    Returned("create_mined_transaction") =>
        /\ Pays(ret.tx, ret.address, MILLION_SATS)
        /\ Len(Tip.txdata) >= 2
        /\ ret.tx = SecondTransaction(Tip)

\* C2: the configuration handed to Node::with_conf has no wallet for
\* Wallet::None, exactly the given name for Wallet::Load(name), and the
\* wallet of Conf::default() for Wallet::Default.
C2_LaunchWalletFollowsIntent ==
    \A i \in 1..Len(spawned) :
        LET w == spawned[i].conf.wallet
        IN  /\ args.wallet.tag = "None" => w = None
            /\ args.wallet.tag = "Load" => w = Some(args.wallet.name)
            /\ args.wallet.tag = "Default" => w = DefaultConf.wallet

\* C2's case: with_conf was called for a named wallet that is not the default's.
C2_Witness ==
    /\ Len(spawned) = 1
    /\ args.wallet = WalletLoad("alice")
    /\ spawned[1].conf.wallet = Some("alice")

\* C3: the configuration handed to Node::with_conf holds "-txindex" exactly
\* when the constructor called is one of the three _txindex constructors.
C3_TxindexIffRequested ==
    \A i \in 1..Len(spawned) :
        HasArg(spawned[i].conf, "-txindex") <=> ctor \in TxindexConstructors

\* C3's case: a _txindex constructor reached with_conf with the flag.
C3_Witness ==
    /\ Len(spawned) = 1
    /\ ctor = "new_no_wallet_txindex"
    /\ HasArg(spawned[1].conf, "-txindex")

\* C4: whenever fund_wallet returns, the wallet's spendable balance is
\* above zero and the chain has grown by at least 100 blocks since the
\* call, whatever the chain was before (a fresh chain included).
C4_FundWalletFunds ==
    Returned("fund_wallet") =>
        /\ IsSome(wallet)
        /\ AmountPositive(SpendableBalance(chain))
        /\ Height(chain) - atCall.height >= 100

\* C4's case: fund_wallet returned on a chain that was empty when called.
C4_Witness ==
    /\ Returned("fund_wallet")
    /\ atCall.height = 0
    /\ AmountPositive(SpendableBalance(chain))

\* C5: whenever create_mempool_transaction returns (address, txid), the
\* transaction txid is in the mempool and in no block of the chain.
C5_MempoolTransactionIsPending ==
    Returned("create_mempool_transaction") =>
        /\ ret.kind = "address_txid"
        /\ InMempool(mempool, ret.txid)
        /\ ~InChain(chain, ret.txid)

\* C5's case: create_mempool_transaction returned with its transaction pending.
C5_Witness ==
    /\ Returned("create_mempool_transaction")
    /\ InMempool(mempool, ret.txid)
    /\ Len(mempool) = 2

\* C6: whenever mine_a_block returns, the chain is exactly one block higher
\* than when it was called and the tip's coinbase pays the address this
\* call got from its own new_address.
C6_MineBlockAddsOneBlock ==
    Returned("mine_a_block") =>
        /\ Height(chain) = atCall.height + 1
        /\ Tip.txdata[1].coinbase
        /\ \E i \in 1..Len(Tip.txdata[1].output) :
               Tip.txdata[1].output[i].address = local.address
        /\ local.address >= atCall.nextAddress
        /\ local.address < nextAddress

\* C6's case: mine_a_block returned on a chain that already had blocks.
C6_Witness ==
    /\ Returned("mine_a_block")
    /\ atCall.height > 0
    /\ Height(chain) = atCall.height + 1

\* C7: the daemon's wallet follows the Wallet the constructor was given: none
\* for Wallet::None, the named one for Wallet::Load(name), some wallet for
\* Wallet::Default; and on a node without a wallet every scenario operation
\* panics at its first step, the new_address call, and returns nothing.
C7_WalletStateFollowsIntent ==
    /\ daemon # "none" =>
        /\ args.wallet.tag = "None" => wallet = None
        /\ args.wallet.tag = "Load" => wallet = Some(args.wallet.name)
        /\ args.wallet.tag = "Default" => IsSome(wallet)
    /\ (args.wallet.tag = "None" /\ history # <<>>) =>
        IF pc = FirstStep(op)
        THEN log = <<>>
        ELSE /\ pc \in {"panicked", "aborted"}
             /\ log = <<Step(FirstStep(op), "new_address", FALSE)>>
             /\ ret = NoRet

\* C7's case: create_mined_transaction panicked on a node without a wallet.
C7_Witness ==
    /\ args.wallet.tag = "None"
    /\ op = "create_mined_transaction"
    /\ pc = "panicked"
    /\ panicMsg = "failed to get new address"

IsPrefix(s, t) == Len(s) <= Len(t) /\ \A i \in 1..Len(s) : s[i] = t[i]

\* C8: on a node built with the default wallet, fund_wallet followed by
\* create_mined_transaction, with no step failed by the environment, never
\* panics and returns an address and a transaction that pays that address
\* MILLION_SATS and is in the tip block.
C8_FundThenMinedTransaction ==
    (/\ ctor \in {"new_with_default_wallet", "new_with_default_wallet_txindex"}
     /\ ~faulted
     /\ IsPrefix(history, <<"fund_wallet", "create_mined_transaction">>)) =>
        /\ pc \notin {"panicked", "aborted"}
        /\ (Len(history) = 2 /\ pc = "idle") =>
            /\ ret.kind = "address_tx"
            /\ Pays(ret.tx, ret.address, MILLION_SATS)
            /\ InBlock(Tip, ret.tx.txid)
            /\ Height(chain) = NBLOCKS + 1

\* C8's case: the two calls were made and both returned.
C8_Witness ==
    /\ ctor = "new_with_default_wallet"
    /\ ~faulted
    /\ history = <<"fund_wallet", "create_mined_transaction">>
    /\ pc = "idle"
    /\ ret.kind = "address_tx"

ExeLookupFailed ==
    \E i \in 1..Len(log) : log[i].step = "new_exe_path" /\ ~log[i].ok

WithConfFailed ==
    \E i \in 1..Len(log) : log[i].step = "new_with_conf" /\ ~log[i].ok

\* C9: in the constructor and in every scenario operation, a failed step is
\* the operation's last: the test is panicking, no step follows it, no step
\* is made twice in one call, and nothing is returned (no artifact, and no
\* handle from the constructor).
C9_FirstFailureEndsOperation ==
    /\ \A i \in 1..Len(log) :
        ~log[i].ok =>
            /\ i = Len(log)
            /\ pc \in {"panicked", "aborted"}
            /\ ret = NoRet
    /\ \A i, j \in 1..Len(log) : i # j => log[i].step # log[j].step
    /\ (ExeLookupFailed \/ WithConfFailed) => (~handle /\ daemon = "none")
    /\ pc \in {"panicked", "aborted"} => (log # <<>> /\ ~log[Len(log)].ok)

\* C9's case: create_mined_transaction panicked decoding the txid, its
\* third step, after two steps that succeeded.
C9_Witness ==
    /\ op = "create_mined_transaction"
    /\ pc = "panicked"
    /\ Len(log) = 3
    /\ log[3] = Step("mempool_txid", "txid", FALSE)

\* C10: _new locates the executable, builds the configuration and then
\* calls with_conf, at most once: with the executable not found with_conf is
\* never called, and when with_conf fails it was called once; either way
\* the test panics and gets no handle.
C10_ConstructorOrder ==
    /\ Len(spawned) <= 1
    /\ Len(spawned) = 1 =>
        /\ exe = Some(spawned[1].exe)
        /\ conf = Some(spawned[1].conf)
        /\ spawned[1].conf = BuildConf(args.wallet, args.txindex)
    /\ ExeLookupFailed =>
        /\ spawned = <<>>
        /\ pc = "panicked"
        /\ ~handle /\ daemon = "none"
    /\ WithConfFailed =>
        /\ Len(spawned) = 1
        /\ pc = "panicked"
        /\ ~handle /\ daemon = "none"
    /\ handle => Len(spawned) = 1

\* C10's case: with_conf was called once and failed.
C10_Witness ==
    /\ WithConfFailed
    /\ Len(spawned) = 1
    /\ panicMsg = "failed to create node"

\* C11: a node asked for with Wallet::Load("") is not taken for one asked
\* for with Wallet::Default: the configuration handed to with_conf names the
\* wallet "", which is not the configuration new_with_default_wallet (or
\* its _txindex twin) hands over, and the wallet the daemon loads is not
\* the one it loads for the default.
C11_EmptyNameIsNotDefault ==
    args.wallet = WalletLoad("") =>
        /\ \A i \in 1..Len(spawned) :
            /\ spawned[i].conf.wallet = Some("")
            /\ spawned[i].conf # BuildConf(WalletDefault, args.txindex)
        /\ daemon # "none" =>
            wallet # LoadedWallet(BuildConf(WalletDefault, args.txindex))

\* C11's case: new_with_wallet("") got its node.
C11_Witness ==
    /\ ctor = "new_with_wallet"
    /\ args.wallet = WalletLoad("")
    /\ handle
    /\ wallet = Some("")

\* C12: the daemon of a built node is stopped and its working directory
\* removed on every way out of the test, a panic part-way through a
\* scenario operation included: a daemon runs and a directory stands only
\* while the test holds the handle, and in the end neither does.
C12_DaemonStoppedOnEveryExit ==
    /\ [](daemon = "running" => handle)
    /\ [](workdir = "present" => handle)
    /\ <>[](daemon # "running" /\ workdir # "present")

\* C12's case: a scenario operation panicked after its first step and the
\* unwinding stopped the daemon and removed its directory.
C12_Witness ==
    /\ pc = "aborted"
    /\ Len(log) > 1
    /\ daemon = "stopped"
    /\ workdir = "removed"

\* The block the current operation mined first.
MinedBlock == chain[atCall.height + 1]

\* C13: with no other submission between the send and the mine step of
\* create_mined_transaction (the test is the daemon's only client here, so
\* there never is one), the block that call mined holds exactly one
\* transaction besides the coinbase, the one the call just sent, at
\* position 1.
C13_MinedBlockHoldsOnlyTheNewTransaction ==
    Returned("create_mined_transaction") =>
        /\ Len(MinedBlock.txdata) = 2
        /\ MinedBlock.txdata[2].txid = local.txid

\* The RPCs the current operation has issued, in order (decoding the txid
\* and indexing txdata are steps of the test, not calls to the daemon).
RpcsIssued ==
    LET rpcs == SelectSeq(log, LAMBDA e : e.rpc \notin {"txid", "index"})
    IN  [i \in 1..Len(rpcs) |-> rpcs[i].rpc]

\* The RPCs each scenario operation is to issue, in order.
RpcOrder(o) ==
    CASE o = "fund_wallet" -> <<"new_address", "generate_to_address">>
      [] o = "mine_a_block" -> <<"new_address", "generate_to_address">>
      [] o = "create_mempool_transaction" -> <<"new_address", "send_to_address">>
      [] o = "create_mined_transaction" ->
            <<"new_address", "send_to_address", "new_address", "generate_to_address",
              "best_block_hash", "get_block">>

\* C14: a scenario operation issues its RPCs one after another in its fixed
\* order, each only after the one before it was answered;
\* create_mined_transaction issues new_address, send_to_address,
\* new_address, generate_to_address (of one block), best_block_hash,
\* get_block; an operation that returned issued all of its RPCs, before the
\* next operation's first.
C14_RpcsInOrder ==
    history # <<>> =>
        /\ IsPrefix(RpcsIssued, RpcOrder(op))
        /\ \A i \in 1..Len(log) : i < Len(log) => log[i].ok
        /\ pc = FirstStep(op) => log = <<>>
        /\ Returned(op) => RpcsIssued = RpcOrder(op)
        /\ Returned("create_mined_transaction") => Height(chain) = atCall.height + 1

\* C14's case: create_mined_transaction returned after its six RPCs.
C14_Witness ==
    /\ Returned("create_mined_transaction")
    /\ Len(RpcsIssued) = 6
    /\ Len(history) = 2

\* C15: fund_wallet shows no half-done state: when its new_address fails
\* no generate_to_address is issued and the chain is as it was; when its
\* generate_to_address fails the test panics and nothing is returned; and
\* it never returns with fewer than 101 blocks added.
C15_FundWalletAllOrNothing ==
    (op = "fund_wallet" /\ history # <<>>) =>
        /\ (Len(log) >= 1 /\ ~log[1].ok) =>
            /\ Len(log) = 1
            /\ log[1].rpc = "new_address"
            /\ Height(chain) = atCall.height
            /\ pc \in {"panicked", "aborted"}
        /\ (Len(log) >= 2 /\ ~log[2].ok) =>
            /\ log[2].rpc = "generate_to_address"
            /\ pc \in {"panicked", "aborted"}
            /\ ret = NoRet
        /\ pc \in {"idle", "finished"} =>
            /\ ret = UnitRet
            /\ Height(chain) - atCall.height >= 101

\* C15's case: fund_wallet's new_address failed on a node with a wallet and
\* a chain, and the test panicked.
C15_Witness ==
    /\ op = "fund_wallet"
    /\ IsSome(wallet)
    /\ atCall.height > 0
    /\ pc = "panicked"
    /\ log = <<Step("fund_new_address", "new_address", FALSE)>>
    /\ Height(chain) = atCall.height

\* The blocks added since the current operation was called.
BlocksAdded == {h \in 1..Height(chain) : h > atCall.height}

\* C16: when fund_wallet returns it has taken exactly one address from the
\* wallet, one not handed out before, and has added exactly 101 blocks, the
\* coinbase of each paying that address; the height is 101 more than at the
\* call.
C16_FundWalletOneAddress101Blocks ==
    Returned("fund_wallet") =>
        /\ nextAddress = atCall.nextAddress + 1
        /\ local.address = atCall.nextAddress
        /\ \A h \in 1..atCall.height : ~Pays(chain[h].txdata[1], local.address, Subsidy(h))
        /\ Height(chain) = atCall.height + 101
        /\ Cardinality(BlocksAdded) = 101
        /\ \A h \in BlocksAdded :
            /\ chain[h].txdata[1].coinbase
            /\ Pays(chain[h].txdata[1], local.address, Subsidy(h))
        /\ log = <<Step("fund_new_address", "new_address", TRUE),
                   Step("fund_generate", "generate_to_address", TRUE)>>

\* C16's case: a second fund_wallet has returned, on a chain whose earlier
\* blocks pay other addresses.
C16_Witness ==
    /\ Returned("fund_wallet")
    /\ atCall.height >= 101
    /\ Height(chain) = atCall.height + 101
    /\ Pays(Tip.txdata[1], local.address, Subsidy(Height(chain)))

\* C17: when mine_a_block returns, every transaction that was pending in
\* the mempool at the call is in the one block the call mined, and none of
\* them is left in the mempool.
C17_MineBlockConfirmsThePending ==
    Returned("mine_a_block") =>
        /\ Height(chain) = atCall.height + 1
        /\ \A i \in 1..Len(atCall.mempool) :
            /\ InBlock(Tip, atCall.mempool[i].txid)
            /\ ~InMempool(mempool, atCall.mempool[i].txid)
        /\ Len(Tip.txdata) = 1 + Len(atCall.mempool)

\* C17's case: mine_a_block has returned after a call made with two
\* transactions pending.
C17_Witness ==
    /\ Returned("mine_a_block")
    /\ Len(atCall.mempool) = 2
    /\ InBlock(Tip, atCall.mempool[1].txid)
    /\ InBlock(Tip, atCall.mempool[2].txid)
    /\ mempool = <<>>

\* Every transaction of mempool `mp2` is one of mempool `mp1`.
NoNewTransaction(mp1, mp2) == \A i \in 1..Len(mp2) : InMempool(mp1, mp2[i].txid)

\* C18: no step of create_mempool_transaction changes the chain; no step of
\* fund_wallet or mine_a_block puts a transaction into the mempool; and
\* when create_mined_transaction returns the chain is exactly one block
\* higher than at the call and the transaction it sent is confirmed, not
\* pending.
C18_OperationsKeepTheirFrame ==
    /\ [][/\ op = "create_mempool_transaction" => chain' = chain
          /\ op \in {"fund_wallet", "mine_a_block"} => NoNewTransaction(mempool, mempool')]_vars
    /\ [](Returned("create_mined_transaction") =>
            /\ Height(chain) = atCall.height + 1
            /\ ~InMempool(mempool, local.txid)
            /\ InChain(chain, local.txid))

\* C18's case: create_mined_transaction has returned after a call made with
\* a transaction already pending, and both are confirmed.
C18_Witness ==
    /\ Returned("create_mined_transaction")
    /\ Len(atCall.mempool) = 1
    /\ Height(chain) = atCall.height + 1
    /\ mempool = <<>>
    /\ InBlock(Tip, local.txid)

\* The transactions of block `blk` with id `txid`.
TransactionsOf(blk, txid) ==
    {blk.txdata[i] : i \in {j \in 1..Len(blk.txdata) : blk.txdata[j].txid = txid}}

\* C19: the address create_mined_transaction returns is the one its send
\* step got and paid, never the one its mine step got: the two differ, the
\* mined block's coinbase pays the mine step's address and does not pay the
\* returned one.
C19_ReturnsTheSendAddress ==
    Returned("create_mined_transaction") =>
        /\ ret.address = atCall.nextAddress
        /\ local.address = atCall.nextAddress + 1
        /\ ret.address # local.address
        /\ \A tx \in TransactionsOf(Tip, local.txid) : Pays(tx, ret.address, MILLION_SATS)
        /\ TransactionsOf(Tip, local.txid) # {}
        /\ Pays(Tip.txdata[1], local.address, Subsidy(Height(chain)))
        /\ \A i \in 1..Len(Tip.txdata[1].output) : Tip.txdata[1].output[i].address # ret.address

\* C19's case: create_mined_transaction has returned on a fresh mempool; the
\* block holds the coinbase to the mine step's address and the send to the
\* returned address.
C19_Witness ==
    /\ Returned("create_mined_transaction")
    /\ atCall.mempool = <<>>
    /\ Len(Tip.txdata) = 2
    /\ Pays(Tip.txdata[2], ret.address, MILLION_SATS)
    /\ Pays(Tip.txdata[1], local.address, Subsidy(Height(chain)))
    /\ ret.address # local.address

=============================================================================
